---- MODULE Spec2Model ----
(***************************************************************************)
(* The IMDb warehouse loader (src/etl/load_data.py, class IMDBDataLoader)  *)
(* as a state machine: one run of run_etl against a MySQL session.         *)
(*                                                                         *)
(* The database is two copies of every table: db (what is committed) and   *)
(* txn (what the loader's session sees, its uncommitted changes included). *)
(* commit copies txn to db, rollback copies db to txn, TRUNCATE commits    *)
(* implicitly, DELETE does not.  Every stored row carries the ghost field  *)
(* run: 1 for a row inserted by the run modelled here, 0 for a row left by *)
(* an earlier run.  The table definitions (keys, uniqueness) are not part  *)
(* of the sources, so INSERT IGNORE stores every row it is given.          *)
(***************************************************************************)
EXTENDS Integers, Sequences, FiniteSets, TLC

VARIABLES
    truncate,      \* self.truncate
    disable_fk,    \* self.disable_fk
    test_mode,     \* run_etl's parameter
    fileRows,      \* how many rows each source extract on disk holds
    conn,          \* self.conn:   "none" | "open" | "closed"
    cursor,        \* self.cursor: "none" | "open" | "closed"
    fk_checks,     \* the session's FOREIGN_KEY_CHECKS, 1 on a new session
    db,            \* committed contents, table -> sequence of rows
    txn,           \* the session's view, table -> sequence of rows
    autoinc,       \* next AUTO_INCREMENT value of each keyed dimension
    pc,            \* position in run_etl
    step,          \* position inside the running stage
    df_basics,     \* run_etl's local df_basics (a sequence of rows) or Null
    lookup,        \* the key maps the running stage read back from storage
    data,          \* the row list handed to bulk_insert
    i,             \* bulk_insert's batch offset
    inserted,      \* bulk_insert's local counter
    skip_stats,    \* self.skip_stats, table -> reason -> count
    log,           \* what the run printed and issued, in order
    exc,           \* the exception in flight or surfaced: "none" or its type
    faults         \* environment failures injected so far

vars == <<truncate, disable_fk, test_mode, fileRows, conn, cursor, fk_checks,
          db, txn, autoinc, pc, step, df_basics, lookup, data, i, inserted,
          skip_stats, log, exc, faults>>

-----------------------------------------------------------------------------
(* Bounds of the model.                                                    *)

\* rows per source extract on disk (the real extracts hold millions)
MaxRows == 4
\* environment failures (connection, statement, file) injected in one run
MaxFaults == 1
\* bulk_insert's batch_size, 50000 in the code, cut down with the extracts
BatchSize == 2
\* the row cap of test mode, 10000 in the code, cut down with the extracts
TestRows == 1
\* number of years of dim_time, 167 (1874..2040) in the code
MaxYears == 2

(* Program constants.                                                      *)
\* years = list(range(1874, 2041))
FirstYear == 1874
LastYear == 2040

\* None / SQL NULL for identifiers, keys, years and counts
Null == 0
\* None for a text column
NoText == "None"

-----------------------------------------------------------------------------
(* The source extracts.  Row k of every extract is a fixed function of k,  *)
(* so that an extract of fileRows rows is a prefix of one master listing;  *)
(* the listings are built to hold the cases the loader distinguishes:     *)
(* a null identifier, a null or padded genre list, a year outside the      *)
(* Time dimension, a person or title that is referenced but never listed.  *)

\* name.basics: nconst, primaryName
NameRow(k) == [nconst |-> k, primaryName |-> "name"]

\* title.basics: tconst, titleType, genres (already split on ','), startYear
BasicsRow(k) ==
    CASE k % 4 = 1 -> [tconst |-> k, titleType |-> "movie",
                       genres |-> <<"Action", " Drama">>, startYear |-> LastYear]
      [] k % 4 = 2 -> [tconst |-> k, titleType |-> "short",
                       genres |-> <<"Drama">>, startYear |-> 1850]
      [] k % 4 = 3 -> [tconst |-> Null, titleType |-> "movie",
                       genres |-> <<>>, startYear |-> Null]
      [] OTHER     -> [tconst |-> k, titleType |-> NoText,
                       genres |-> <<>>, startYear |-> Null]

\* title.episode: tconst, parentTconst
EpisodeRow(k) == [tconst |-> k, parentTconst |-> IF k % 4 = 0 THEN Null ELSE k + 1]

\* title.akas: titleId
AkasRow(k) == [titleId |-> k]

\* title.crew: tconst, directors, writers (already split on ',')
CrewRow(k) ==
    [tconst    |-> k,
     directors |-> IF k % 2 = 1 THEN <<k, k + 1>> ELSE <<>>,
     writers   |-> IF k % 2 = 0 THEN <<k - 1, k + 1>> ELSE <<>>]

\* title.principals: tconst, nconst, category
PrincipalRow(k) ==
    [tconst |-> k, nconst |-> k + 1,
     category |-> IF k % 2 = 1 THEN "director" ELSE "actor"]

\* title.ratings: tconst, averageRating (in tenths), numVotes
RatingRow(k) == [tconst |-> k, averageRating |-> 70 + k, numVotes |-> 10 * k]

SourceRow(file, k) ==
    CASE file = "name.basics"      -> NameRow(k)
      [] file = "title.basics"     -> BasicsRow(k)
      [] file = "title.episode"    -> EpisodeRow(k)
      [] file = "title.akas"       -> AkasRow(k)
      [] file = "title.crew"       -> CrewRow(k)
      [] file = "title.principals" -> PrincipalRow(k)
      [] file = "title.ratings"    -> RatingRow(k)

-----------------------------------------------------------------------------
(* Helpers for lists, sets and dicts.                                      *)

Min(a, b) == IF a < b THEN a ELSE b

Range(s) == {s[k] : k \in 1..Len(s)}

MapSeq(s, F(_)) == [k \in 1..Len(s) |-> F(s[k])]

RECURSIVE Flatten(_)
Flatten(ss) == IF ss = <<>> THEN <<>> ELSE Head(ss) \o Flatten(Tail(ss))

Count(s, P(_)) == Len(SelectSeq(s, P))

\* the first occurrences of s, in order (pandas' unique())
RECURSIVE Unique(_)
Unique(s) ==
    IF s = <<>> THEN <<>>
    ELSE LET init == Unique(SubSeq(s, 1, Len(s) - 1))
             last == s[Len(s)]
         IN  IF last \in Range(init) THEN init ELSE Append(init, last)

\* {row[kcol]: row for row in rows}: the last row of a key wins
DictOf(rows, kcol) ==
    [key \in {rows[k][kcol] : k \in 1..Len(rows)} |->
        rows[CHOOSE k \in 1..Len(rows) :
                /\ rows[k][kcol] = key
                /\ \A m \in (k + 1)..Len(rows) : rows[m][kcol] # key]]

\* dict.get(key): the column of the row found, None when there is none
Get(dict, key, col) == IF key \in DOMAIN dict THEN dict[key][col] ELSE Null

\* faulty variant: the tokens are used as split(',') leaves them
NoStrip(token) == token

\* str.strip() on the genre tokens of the listings
Strip(token) ==
    CASE token = " Drama"  -> "Drama"
      [] token = "Action " -> "Action"
      [] OTHER             -> token

\* the order sorted() gives the genre names
GenreRank(g) == CASE g = "Action" -> 1 [] g = "Drama" -> 2 [] OTHER -> 3

RECURSIVE SortedGenres(_)
SortedGenres(S) ==
    IF S = {} THEN <<>>
    ELSE LET g == CHOOSE x \in S : \A y \in S : GenreRank(x) <= GenreRank(y)
         IN  <<g>> \o SortedGenres(S \ {g})

-----------------------------------------------------------------------------
(* The row lists the stages build.  Each operator returns the list handed  *)
(* to bulk_insert (rows) and the skip tallies the stage adds (skips).      *)

\* range(1874, 2041) cut down to its first year and its last MaxYears - 1 years
TimeYears ==
    [k \in 1..MaxYears |-> IF k = 1 THEN FirstYear ELSE LastYear - (MaxYears - k)]

\* faulty variant: the decade is the quotient, not the first year of the decade
TimeDataDecadeOff ==
    [rows  |-> MapSeq(TimeYears, LAMBDA year :
                    [year |-> year, decade |-> year \div 10,
                     century |-> (year \div 100) + 1]),
     skips |-> <<>>]

\* load_dim_time: (year, decade, century) for every year of the range
TimeData ==
    [rows  |-> MapSeq(TimeYears, LAMBDA year :
                    [year |-> year, decade |-> (year \div 10) * 10,
                     century |-> (year \div 100) + 1]),
     skips |-> <<>>]

\* load_dim_title_type: the distinct non-null titleType values
TitleTypeData(df) ==
    [rows  |-> MapSeq(Unique(SelectSeq(MapSeq(df, LAMBDA r : r.titleType),
                                       LAMBDA t : t # NoText)),
                      LAMBDA t : [titleType |-> t]),
     skips |-> <<>>]

\* load_dim_genre: the distinct stripped tokens of the non-null genre lists, sorted
AllGenres(df) == UNION {{Strip(g) : g \in Range(r.genres)} : r \in Range(df)}

GenreData(df) ==
    [rows  |-> MapSeq(SortedGenres(AllGenres(df)), LAMBDA g : [genre_name |-> g]),
     skips |-> <<>>]

\* load_dim_person: one row per row read
PersonData(df) ==
    [rows  |-> MapSeq(df, LAMBDA r : [nconst |-> r.nconst, primaryName |-> r.primaryName]),
     skips |-> <<>>]

\* faulty variant: a row without tconst is counted and inserted all the same
TitleDataKeepsNull(df, type_map) ==
    [rows  |-> MapSeq(df, LAMBDA r :
                    [tconst |-> r.tconst, startYear |-> r.startYear,
                     type_key |-> Get(type_map, r.titleType, "type_key")]),
     skips |-> [missing_tconst |-> Count(df, LAMBDA r : r.tconst = Null)]]

\* faulty variant (strict policy): a title whose type has no key is skipped
TitleDataStrict(df, type_map) ==
    LET TypeKey(r) == Get(type_map, r.titleType, "type_key")
        kept == SelectSeq(df, LAMBDA r : r.tconst # Null /\ TypeKey(r) # Null)
    IN  [rows  |-> MapSeq(kept, LAMBDA r :
                        [tconst |-> r.tconst, startYear |-> r.startYear,
                         type_key |-> TypeKey(r)]),
         skips |-> [missing_tconst    |-> Count(df, LAMBDA r : r.tconst = Null),
                    unknown_titleType |-> Count(df, LAMBDA r :
                                            r.tconst # Null /\ TypeKey(r) = Null
                                            /\ r.titleType # NoText)]]

\* load_dim_title: rows with a null tconst are skipped, an unmapped type is kept as NULL
TitleData(df, type_map) ==
    LET kept == SelectSeq(df, LAMBDA r : r.tconst # Null)
        TypeKey(r) == Get(type_map, r.titleType, "type_key")
    IN  [rows  |-> MapSeq(kept, LAMBDA r :
                        [tconst |-> r.tconst, startYear |-> r.startYear,
                         type_key |-> TypeKey(r)]),
         skips |-> [missing_tconst    |-> Count(df, LAMBDA r : r.tconst = Null),
                    unknown_titleType |-> Count(kept, LAMBDA r :
                                            TypeKey(r) = Null /\ r.titleType # NoText)]]

\* faulty variant: an episode whose parent is not a stored title is skipped
EpisodeDataDropsOrphans(df, valid_tconsts) ==
    LET Orphan(r) == r.parentTconst # Null /\ r.parentTconst \notin valid_tconsts
        kept == SelectSeq(df, LAMBDA r : r.tconst \in valid_tconsts /\ ~Orphan(r))
    IN  [rows  |-> MapSeq(kept, LAMBDA r :
                        [tconst |-> r.tconst, parentTconst |-> r.parentTconst]),
         skips |-> [tconst_not_found        |-> Count(df, LAMBDA r : r.tconst \notin valid_tconsts),
                    parent_tconst_not_found |-> Count(df, LAMBDA r :
                                                    r.tconst \in valid_tconsts /\ Orphan(r))]]

\* faulty variant: the episode's own identifier is not checked against dim_title
EpisodeDataKeepsUnknown(df, valid_tconsts) ==
    LET Orphan(r) == r.parentTconst # Null /\ r.parentTconst \notin valid_tconsts
    IN  [rows  |-> MapSeq(df, LAMBDA r :
                        [tconst |-> r.tconst,
                         parentTconst |-> IF Orphan(r) THEN Null ELSE r.parentTconst]),
         skips |-> [parent_tconst_not_found |-> Count(df, Orphan)]]

\* load_dim_episode: an unknown tconst skips the row, an unknown parent is stored as NULL
EpisodeData(df, valid_tconsts) ==
    LET kept == SelectSeq(df, LAMBDA r : r.tconst \in valid_tconsts)
        Orphan(r) == r.parentTconst # Null /\ r.parentTconst \notin valid_tconsts
    IN  [rows  |-> MapSeq(kept, LAMBDA r :
                        [tconst |-> r.tconst,
                         parentTconst |-> IF Orphan(r) THEN Null ELSE r.parentTconst]),
         skips |-> [tconst_not_found        |-> Count(df, LAMBDA r : r.tconst \notin valid_tconsts),
                    parent_tconst_not_found |-> Count(kept, Orphan)]]

\* load_dim_akas
AkasData(df, valid_tconsts) ==
    [rows  |-> MapSeq(SelectSeq(df, LAMBDA r : r.titleId \in valid_tconsts),
                      LAMBDA r : [tconst |-> r.titleId]),
     skips |-> [tconst_not_found |-> Count(df, LAMBDA r : r.titleId \notin valid_tconsts)]]

\* load_bridge_title_genre: one row per token of a known title that is a known genre
BridgeGenreData(df, genre_map, valid_tconsts) ==
    LET kept == SelectSeq(df, LAMBDA r : r.tconst \in valid_tconsts)
        Tokens(r) == MapSeq(r.genres, Strip)
        Known(g) == g \in DOMAIN genre_map
    IN  [rows  |-> Flatten(MapSeq(kept, LAMBDA r :
                        MapSeq(SelectSeq(Tokens(r), Known), LAMBDA g :
                            [tconst |-> r.tconst, genre_key |-> genre_map[g].genre_key]))),
         skips |-> [tconst_not_found |-> Count(df, LAMBDA r : r.tconst \notin valid_tconsts),
                    unknown_genre    |-> Len(Flatten(MapSeq(kept, LAMBDA r :
                                            SelectSeq(Tokens(r), LAMBDA g : ~Known(g))))),
                    no_genres        |-> Count(kept, LAMBDA r : r.genres = <<>>)]]

\* load_bridge_title_director / _writer: col is "directors" or "writers"
BridgeCrewData(df, col, person_map, valid_tconsts) ==
    LET kept == SelectSeq(df, LAMBDA r : r.tconst \in valid_tconsts)
        PersonKey(n) == Get(person_map, n, "person_key")
        not_found == Count(df, LAMBDA r : r.tconst \notin valid_tconsts)
        unknown   == Len(Flatten(MapSeq(kept, LAMBDA r :
                        SelectSeq(r[col], LAMBDA n : PersonKey(n) = Null))))
        none      == Count(kept, LAMBDA r : r[col] = <<>>)
    IN  [rows  |-> Flatten(MapSeq(kept, LAMBDA r :
                        MapSeq(SelectSeq(r[col], LAMBDA n : PersonKey(n) # Null), LAMBDA n :
                            [tconst |-> r.tconst, person_key |-> PersonKey(n)]))),
         skips |-> IF col = "directors"
                   THEN [tconst_not_found |-> not_found, unknown_person |-> unknown,
                         no_directors |-> none]
                   ELSE [tconst_not_found |-> not_found, unknown_person |-> unknown,
                         no_writers |-> none]]

\* load_bridge_title_principal
PrincipalData(df, person_map, valid_tconsts) ==
    LET kept == SelectSeq(df, LAMBDA r : r.tconst \in valid_tconsts)
        PersonKey(r) == Get(person_map, r.nconst, "person_key")
    IN  [rows  |-> MapSeq(SelectSeq(kept, LAMBDA r : PersonKey(r) # Null), LAMBDA r :
                        [tconst |-> r.tconst, person_key |-> PersonKey(r),
                         category |-> r.category]),
         skips |-> [tconst_not_found |-> Count(df, LAMBDA r : r.tconst \notin valid_tconsts),
                    unknown_person   |-> Count(kept, LAMBDA r : PersonKey(r) = Null)]]

\* faulty variant: a rating of a title that is not stored is kept, without its keys
FactDataKeepsUnknown(df, title_map, time_map) ==
    [rows  |-> MapSeq(df, LAMBDA r :
                    [tconst |-> r.tconst, averageRating |-> r.averageRating,
                     numVotes |-> r.numVotes,
                     title_key |-> Get(title_map, r.tconst, "title_key"),
                     time_key |-> Get(time_map, Get(title_map, r.tconst, "startYear"), "time_key"),
                     type_key |-> Get(title_map, r.tconst, "type_key")]),
     skips |-> <<>>]

\* faulty variant: a rating whose year has no row in dim_time is dropped
FactDataDropsUndated(df, title_map, time_map) ==
    LET kept == SelectSeq(df, LAMBDA r :
                    /\ r.tconst \in DOMAIN title_map
                    /\ title_map[r.tconst].startYear \in DOMAIN time_map)
    IN  [rows  |-> MapSeq(kept, LAMBDA r :
                        [tconst |-> r.tconst, averageRating |-> r.averageRating,
                         numVotes |-> r.numVotes,
                         title_key |-> title_map[r.tconst].title_key,
                         time_key |-> time_map[title_map[r.tconst].startYear].time_key,
                         type_key |-> title_map[r.tconst].type_key]),
         skips |-> [title_not_found |-> Count(df, LAMBDA r : r.tconst \notin DOMAIN title_map)]]

\* load_fact_title_ratings: an unknown title skips the row, an unmapped year is kept as NULL
FactData(df, title_map, time_map) ==
    LET kept == SelectSeq(df, LAMBDA r : r.tconst \in DOMAIN title_map)
        Year(r) == title_map[r.tconst].startYear
    IN  [rows  |-> MapSeq(kept, LAMBDA r :
                        [tconst |-> r.tconst, averageRating |-> r.averageRating,
                         numVotes |-> r.numVotes,
                         title_key |-> title_map[r.tconst].title_key,
                         time_key |-> IF Year(r) # Null THEN Get(time_map, Year(r), "time_key")
                                      ELSE Null,
                         type_key |-> title_map[r.tconst].type_key]),
         skips |-> [title_not_found      |-> Count(df, LAMBDA r : r.tconst \notin DOMAIN title_map),
                    year_not_in_dim_time |-> Count(kept, LAMBDA r :
                                                Year(r) # Null /\ Year(r) \notin DOMAIN time_map)]]

-----------------------------------------------------------------------------
(* Tables, stages and the order of run_etl.                                *)

Stages ==
    <<"dim_time", "dim_person", "dim_title_type", "dim_genre", "dim_title",
      "dim_episode", "dim_akas", "bridge_title_genre", "bridge_title_director",
      "bridge_title_writer", "bridge_title_principal", "fact_title_ratings">>

Tables == Range(Stages)

BridgeStages == {"bridge_title_genre", "bridge_title_director",
                 "bridge_title_writer", "bridge_title_principal"}

\* the dimensions whose generated key the loader selects back
KeyCol(t) ==
    CASE t = "dim_time"       -> "time_key"
      [] t = "dim_person"     -> "person_key"
      [] t = "dim_title_type" -> "type_key"
      [] t = "dim_genre"      -> "genre_key"
      [] t = "dim_title"      -> "title_key"
      [] OTHER                -> "none"

Keyed == {t \in Tables : KeyCol(t) # "none"}

\* faulty variant: the title-genre bridge is loaded before the titles
ProgramBridgeEarly ==
    <<"connect", "disable_fk", "dim_time", "dim_person", "read_basics",
      "dim_title_type", "dim_genre", "bridge_title_genre", "dim_title", "dim_episode",
      "dim_akas", "bridge_title_director", "bridge_title_writer",
      "bridge_title_principal", "fact_title_ratings", "success">>

\* the statements of run_etl's try block, in order
Program ==
    <<"connect", "disable_fk", "dim_time", "dim_person", "read_basics",
      "dim_title_type", "dim_genre", "dim_title", "dim_episode", "dim_akas",
      "bridge_title_genre", "bridge_title_director", "bridge_title_writer",
      "bridge_title_principal", "fact_title_ratings", "success">>

\* the statement after p in the try block
After(p) == Program[1 + CHOOSE k \in 1..Len(Program) : Program[k] = p]

\* the extract a stage reads itself ("none": it reads no file)
FileOf(s) ==
    CASE s = "dim_person"             -> "name.basics"
      [] s = "dim_episode"            -> "title.episode"
      [] s = "dim_akas"               -> "title.akas"
      [] s = "bridge_title_director"  -> "title.crew"
      [] s = "bridge_title_writer"    -> "title.crew"
      [] s = "bridge_title_principal" -> "title.principals"
      [] s = "fact_title_ratings"     -> "title.ratings"
      [] OTHER                        -> "none"

\* the tables a stage selects back before it builds its rows
Reads(s) ==
    CASE s = "dim_title"              -> {"dim_title_type"}
      [] s = "dim_episode"            -> {"dim_title"}
      [] s = "dim_akas"               -> {"dim_title"}
      [] s = "bridge_title_genre"     -> {"dim_genre", "dim_title"}
      [] s = "bridge_title_director"  -> {"dim_person", "dim_title"}
      [] s = "bridge_title_writer"    -> {"dim_person", "dim_title"}
      [] s = "bridge_title_principal" -> {"dim_person", "dim_title"}
      [] s = "fact_title_ratings"     -> {"dim_title", "dim_time"}
      [] OTHER                        -> {}

\* faulty variant: the cap is applied outside test mode too
NRowsAlways == TestRows

\* nrows = 10000 if test_mode else None
NRows == IF test_mode THEN TestRows ELSE Null

\* read_tsv when the extract is readable: its first nrows rows, all of them without a cap
ReadTsv(file, nrows) ==
    [k \in 1..(IF nrows = Null THEN fileRows ELSE Min(nrows, fileRows)) |-> SourceRow(file, k)]

\* faulty variant: the identifiers of the source listing, not those of the stored titles
ValidTconstsFromSource(fetched) == 1..MaxRows

\* the set of tconst values fetched from dim_title
ValidTconsts(fetched) == {r.tconst : r \in Range(fetched["dim_title"])}

\* the row list and skip tallies of stage s from its input frame and the rows fetched
Build(s, df, fetched) ==
    CASE s = "dim_time"       -> TimeData
      [] s = "dim_person"     -> PersonData(df)
      [] s = "dim_title_type" -> TitleTypeData(df)
      [] s = "dim_genre"      -> GenreData(df)
      [] s = "dim_title"      -> TitleData(df, DictOf(fetched["dim_title_type"], "titleType"))
      [] s = "dim_episode"    -> EpisodeData(df, ValidTconsts(fetched))
      [] s = "dim_akas"       -> AkasData(df, ValidTconsts(fetched))
      [] s = "bridge_title_genre" ->
            BridgeGenreData(df, DictOf(fetched["dim_genre"], "genre_name"),
                            ValidTconsts(fetched))
      [] s = "bridge_title_director" ->
            BridgeCrewData(df, "directors", DictOf(fetched["dim_person"], "nconst"),
                           ValidTconsts(fetched))
      [] s = "bridge_title_writer" ->
            BridgeCrewData(df, "writers", DictOf(fetched["dim_person"], "nconst"),
                           ValidTconsts(fetched))
      [] s = "bridge_title_principal" ->
            PrincipalData(df, DictOf(fetched["dim_person"], "nconst"),
                          ValidTconsts(fetched))
      [] s = "fact_title_ratings" ->
            FactData(df, DictOf(fetched["dim_title"], "tconst"),
                     DictOf(fetched["dim_time"], "year"))

\* the reasons a stage has counted at least once (skip_stats is a defaultdict)
Tallied(skips) == [r \in {x \in DOMAIN skips : skips[x] > 0} |-> skips[r]]

-----------------------------------------------------------------------------
(* The database.                                                           *)

\* a row as the table stores it: the generated key and the run that wrote it
Stored(t, row, key) ==
    [c \in DOMAIN row \cup (IF t \in Keyed THEN {KeyCol(t), "run"} ELSE {"run"}) |->
        IF c = "run" THEN 1
        ELSE IF c = KeyCol(t) THEN key
        ELSE row[c]]

\* a batch as INSERT stores it, keys counted up from the table's AUTO_INCREMENT
StoredBatch(t, batch, next) == [k \in 1..Len(batch) |-> Stored(t, batch[k], next + k - 1)]

EmptyDb == [t \in Tables |-> <<>>]

\* what an earlier run over one-row extracts left behind
OldDb ==
    [t \in Tables |->
        CASE t = "dim_time"       -> <<[year |-> FirstYear, decade |-> 1870, century |-> 19,
                                        time_key |-> 1, run |-> 0]>>
          [] t = "dim_person"     -> <<[nconst |-> 1, primaryName |-> "name",
                                        person_key |-> 1, run |-> 0]>>
          [] t = "dim_title_type" -> <<[titleType |-> "movie", type_key |-> 1, run |-> 0]>>
          [] t = "dim_genre"      -> <<[genre_name |-> "Action", genre_key |-> 1, run |-> 0]>>
          [] t = "dim_title"      -> <<[tconst |-> 1, startYear |-> FirstYear, type_key |-> 1,
                                        title_key |-> 1, run |-> 0]>>
          [] t = "dim_episode"    -> <<[tconst |-> 1, parentTconst |-> Null, run |-> 0]>>
          [] t = "dim_akas"       -> <<[tconst |-> 1, run |-> 0]>>
          [] t = "bridge_title_genre"     -> <<[tconst |-> 1, genre_key |-> 1, run |-> 0]>>
          [] t = "bridge_title_director"  -> <<[tconst |-> 1, person_key |-> 1, run |-> 0]>>
          [] t = "bridge_title_writer"    -> <<[tconst |-> 1, person_key |-> 1, run |-> 0]>>
          [] t = "bridge_title_principal" -> <<[tconst |-> 1, person_key |-> 1,
                                                category |-> "actor", run |-> 0]>>
          [] t = "fact_title_ratings"     -> <<[tconst |-> 1, averageRating |-> 71,
                                                numVotes |-> 10, title_key |-> 1,
                                                time_key |-> 1, type_key |-> 1, run |-> 0]>>]

\* a line the run printed or a statement it issued
Event(e, t) == [e |-> e, t |-> t, n |-> Null]

\* a call of read_tsv with the row cap it was given
ReadEvent(e, file, nrows) == [e |-> e, t |-> file, n |-> nrows]

Logged(e, t) == \E k \in 1..Len(log) : log[k] = Event(e, t)

-----------------------------------------------------------------------------
(* The run.                                                                *)

Init ==
    /\ truncate \in BOOLEAN
    /\ disable_fk \in BOOLEAN
    /\ test_mode \in BOOLEAN
    /\ fileRows \in 0..MaxRows
    \* test mode is run on the longest extracts, where the cap cuts rows off; on
    \* extracts shorter than the cap it reads what a full run reads
    /\ test_mode => fileRows = MaxRows
    /\ conn = "none"
    /\ cursor = "none"
    /\ fk_checks = 1
    /\ db \in {EmptyDb, OldDb}
    /\ txn = db
    /\ autoinc = [t \in Keyed |-> Len(db[t]) + 1]
    /\ pc = "connect"
    /\ step = "truncate"
    /\ df_basics = Null
    /\ lookup = <<>>
    /\ data = <<>>
    /\ i = 0
    /\ inserted = 0
    /\ skip_stats = [t \in Tables |-> <<>>]
    /\ log = <<>>
    /\ exc = "none"
    /\ faults = 0

CanFail == faults < MaxFaults

Flags == <<truncate, disable_fk, test_mode, fileRows>>
Session == <<conn, cursor, fk_checks>>
Storage == <<db, txn, autoinc>>
Locals == <<lookup, data, i, inserted>>

\* faulty variant: connect() opens the connection and leaves the cursor to the stages
ConnectWithoutCursor ==
    /\ pc = "connect"
    /\ conn' = "open"
    /\ fk_checks' = 1
    /\ log' = Append(log, Event("connect", ""))
    /\ pc' = After(pc)
    /\ UNCHANGED <<Flags, cursor, Storage, Locals, step, df_basics, skip_stats, exc, faults>>

\* connect(): the connection and its cursor are opened
Connect ==
    /\ pc = "connect"
    /\ conn' = "open"
    /\ cursor' = "open"
    /\ fk_checks' = 1
    /\ log' = Append(log, Event("connect", ""))
    /\ pc' = After(pc)
    /\ UNCHANGED <<Flags, Storage, Locals, step, df_basics, skip_stats, exc, faults>>

\* connect(): mysql.connector.connect raises Error, the handler calls sys.exit(1)
ConnectFail ==
    /\ pc = "connect"
    /\ CanFail
    /\ faults' = faults + 1
    /\ exc' = "SystemExit"
    /\ log' = Append(log, Event("connect_failed", ""))
    /\ pc' = "finally_fk"
    /\ UNCHANGED <<Flags, Session, Storage, Locals, step, df_basics, skip_stats>>

\* connect(): the connection opens but conn.cursor() raises Error
CursorFail ==
    /\ pc = "connect"
    /\ CanFail
    /\ faults' = faults + 1
    /\ conn' = "open"
    /\ exc' = "SystemExit"
    /\ log' = Append(log, Event("connect_failed", ""))
    /\ pc' = "finally_fk"
    /\ UNCHANGED <<Flags, cursor, fk_checks, Storage, Locals, step, df_basics, skip_stats>>

\* faulty variant: the checks are switched off whatever the flag says
DisableForeignKeysAlways ==
    /\ pc = "disable_fk"
    /\ fk_checks' = 0
    /\ log' = Append(log, Event("fk_off", ""))
    /\ pc' = After(pc)
    /\ UNCHANGED <<Flags, conn, cursor, Storage, Locals, step, df_basics, skip_stats, exc, faults>>

\* if self.disable_fk: self.disable_foreign_keys()
DisableForeignKeys ==
    /\ pc = "disable_fk"
    /\ \/ /\ disable_fk
          /\ fk_checks' = 0
          /\ log' = Append(log, Event("fk_off", ""))
          /\ UNCHANGED faults
       \/ /\ disable_fk
          /\ CanFail
          /\ faults' = faults + 1
          /\ log' = Append(log, Event("fk_off_failed", ""))
          /\ UNCHANGED fk_checks
       \/ /\ ~disable_fk
          /\ UNCHANGED <<fk_checks, log, faults>>
    /\ pc' = After(pc)
    /\ UNCHANGED <<Flags, conn, cursor, Storage, Locals, step, df_basics, skip_stats, exc>>

\* faulty variant: truncate_table clears with DELETE FROM whatever the flags say
TruncateTableDeleteOnly ==
    /\ pc \in Tables
    /\ step = "truncate"
    /\ txn' = IF truncate THEN [txn EXCEPT ![pc] = <<>>] ELSE txn
    /\ log' = log \o <<Event("start", pc)>> \o (IF truncate THEN <<Event("delete", pc)>> ELSE <<>>)
    /\ step' = "read"
    /\ UNCHANGED <<Flags, Session, db, autoinc, Locals, pc, df_basics, skip_stats, exc, faults>>

\* truncate_table(table), the first statement of every stage
TruncateTable ==
    /\ pc \in Tables
    /\ step = "truncate"
    /\ \/ /\ ~truncate
          /\ log' = Append(log, Event("start", pc))
          /\ UNCHANGED <<Storage, faults>>
       \/ /\ truncate
          /\ disable_fk
          \* TRUNCATE TABLE commits the open transaction and resets AUTO_INCREMENT
          /\ db' = [txn EXCEPT ![pc] = <<>>]
          /\ txn' = db'
          /\ autoinc' = IF pc \in Keyed THEN [autoinc EXCEPT ![pc] = 1] ELSE autoinc
          /\ log' = log \o <<Event("start", pc), Event("truncate", pc)>>
          /\ UNCHANGED faults
       \/ /\ truncate
          /\ ~disable_fk
          \* DELETE FROM stays in the open transaction
          /\ txn' = [txn EXCEPT ![pc] = <<>>]
          /\ log' = log \o <<Event("start", pc), Event("delete", pc)>>
          /\ UNCHANGED <<db, autoinc, faults>>
       \/ /\ truncate
          /\ CanFail
          /\ faults' = faults + 1
          /\ log' = log \o <<Event("start", pc), Event("clear_failed", pc)>>
          /\ UNCHANGED Storage
    /\ step' = "read"
    /\ UNCHANGED <<Flags, Session, Locals, pc, df_basics, skip_stats, exc>>

\* what the stage does when it returns to run_etl
Return(s) ==
    /\ pc' = After(s)
    /\ step' = "truncate"
    /\ lookup' = <<>>
    /\ data' = <<>>
    /\ i' = 0
    /\ inserted' = 0

\* faulty variant: after the except clause the run goes on with the next statement
RaiseResumes(s) ==
    /\ pc' = After(s)
    /\ step' = "truncate"
    /\ lookup' = <<>>
    /\ data' = <<>>
    /\ i' = 0
    /\ inserted' = 0

\* an exception reaches run_etl's except clause: ETL FAILED is printed
Raise(s) ==
    /\ pc' = "finally_fk"
    /\ step' = "truncate"
    /\ lookup' = <<>>
    /\ data' = <<>>
    /\ i' = 0
    /\ inserted' = 0

\* the frame stage s works on: run_etl's df_basics, or the extract it reads itself
Frame(s) == IF FileOf(s) = "none" THEN df_basics ELSE ReadTsv(FileOf(s), NRows)

\* the stage reads its extract, selects the keys it needs back and builds its rows
BuildRows ==
    /\ pc \in Tables
    /\ step = "read"
    /\ LET fetched == [t \in Reads(pc) |-> txn[t]]
           built   == Build(pc, Frame(pc), fetched)
       IN  /\ lookup' = fetched
           /\ data' = built.rows
           /\ skip_stats' = [skip_stats EXCEPT ![pc] = Tallied(built.skips)]
    /\ log' = IF FileOf(pc) = "none" THEN log
              ELSE Append(log, ReadEvent("read", FileOf(pc), NRows))
    /\ step' = "insert"
    /\ i' = 0
    /\ inserted' = 0
    /\ UNCHANGED <<Flags, Session, Storage, pc, df_basics, exc, faults>>

\* faulty variant: read_tsv lets the exception through to run_etl
ReadFailRaises ==
    /\ pc \in Tables
    /\ step = "read"
    /\ FileOf(pc) # "none"
    /\ CanFail
    /\ faults' = faults + 1
    /\ log' = log \o <<ReadEvent("read_failed", FileOf(pc), NRows),
                       Event("etl_failed", pc)>>
    /\ Raise(pc)
    /\ UNCHANGED <<Flags, Session, Storage, df_basics, skip_stats, exc>>

\* read_tsv returns None: the stage returns without inserting
ReadFail ==
    /\ pc \in Tables
    /\ step = "read"
    /\ FileOf(pc) # "none"
    /\ CanFail
    /\ faults' = faults + 1
    /\ log' = log \o <<ReadEvent("read_failed", FileOf(pc), NRows),
                       Event("return", pc)>>
    /\ Return(pc)
    /\ UNCHANGED <<Flags, Session, Storage, df_basics, skip_stats, exc>>

\* a SELECT of the stage raises Error: nothing in the stage catches it
SelectFail ==
    /\ pc \in Tables
    /\ step = "read"
    /\ Reads(pc) # {}
    /\ CanFail
    /\ faults' = faults + 1
    /\ log' = (IF FileOf(pc) = "none" THEN log
               ELSE Append(log, ReadEvent("read", FileOf(pc), NRows)))
              \o <<Event("etl_failed", pc)>>
    /\ Raise(pc)
    /\ UNCHANGED <<Flags, Session, Storage, df_basics, skip_stats, exc>>

\* run_etl step 3: title.basics is read once; without it the run cannot continue
ReadBasics ==
    /\ pc = "read_basics"
    /\ \/ /\ df_basics' = ReadTsv("title.basics", NRows)
          /\ log' = Append(log, ReadEvent("read", "title.basics", NRows))
          /\ pc' = After(pc)
          /\ UNCHANGED faults
       \/ /\ CanFail
          /\ faults' = faults + 1
          /\ log' = log \o <<ReadEvent("read_failed", "title.basics", NRows),
                             Event("etl_failed", "read_basics")>>
          /\ pc' = "finally_fk"
          /\ UNCHANGED df_basics
    /\ UNCHANGED <<Flags, Session, Storage, Locals, step, skip_stats, exc>>

\* bulk_insert with an empty row list: nothing is sent, nothing is committed
NoData ==
    /\ pc \in Tables
    /\ step = "insert"
    /\ data = <<>>
    /\ log' = log \o <<Event("no_data", pc), Event("return", pc)>>
    /\ Return(pc)
    /\ UNCHANGED <<Flags, Session, Storage, df_basics, skip_stats, exc, faults>>

\* faulty variant: the slice stops one row early
BatchShort == SubSeq(data, i + 1, Min(i + BatchSize, Len(data)) - 1)

\* data[i:i + batch_size]
Batch == SubSeq(data, i + 1, Min(i + BatchSize, Len(data)))

\* what the session sees after executemany sent the batch
AfterExecutemany == [txn EXCEPT ![pc] = @ \o StoredBatch(pc, Batch, IF pc \in Keyed THEN autoinc[pc] ELSE 1)]

\* faulty variant: the batch is sent but never committed
NoCommit == db

\* what is committed after a batch went through: self.conn.commit()
AfterCommit == AfterExecutemany

\* one pass of bulk_insert's loop: executemany, commit, count
InsertBatch ==
    /\ pc \in Tables
    /\ step = "insert"
    /\ i < Len(data)
    /\ txn' = AfterExecutemany
    /\ db' = AfterCommit
    /\ autoinc' = IF pc \in Keyed THEN [autoinc EXCEPT ![pc] = @ + Len(Batch)] ELSE autoinc
    /\ IF i + BatchSize < Len(data)
       THEN /\ i' = i + BatchSize
            /\ inserted' = inserted + Len(Batch)
            /\ log' = Append(log, Event("commit", pc))
            /\ UNCHANGED <<pc, step, lookup, data>>
       ELSE /\ log' = log \o <<Event("commit", pc),
                               [e |-> "inserted", t |-> pc, n |-> inserted + Len(Batch)],
                               Event("return", pc)>>
            /\ Return(pc)
    /\ UNCHANGED <<Flags, Session, df_basics, skip_stats, exc, faults>>

\* faulty variant: the failing batch stays in the open transaction
NoRollback == AfterExecutemany

\* what the session sees after the except clause of bulk_insert: self.conn.rollback()
AfterRollback == db

\* faulty variant: bulk_insert lets the Error through to run_etl
InsertFailAborts ==
    /\ pc \in Tables
    /\ step = "insert"
    /\ i < Len(data)
    /\ CanFail
    /\ faults' = faults + 1
    /\ log' = log \o <<Event("insert_error", pc), Event("etl_failed", pc)>>
    /\ Raise(pc)
    /\ UNCHANGED <<Flags, Session, Storage, df_basics, skip_stats, exc>>

\* executemany or commit raises Error: the error is printed and the transaction rolled back
InsertFail ==
    /\ pc \in Tables
    /\ step = "insert"
    /\ i < Len(data)
    /\ CanFail
    /\ faults' = faults + 1
    /\ txn' = AfterRollback
    /\ log' = log \o <<Event("insert_error", pc), Event("rollback", pc), Event("return", pc)>>
    /\ Return(pc)
    /\ UNCHANGED <<Flags, Session, db, autoinc, df_basics, skip_stats, exc>>

\* the last statement of the try block
PrintSuccess ==
    /\ pc = "success"
    /\ log' = Append(log, Event("completed", ""))
    /\ pc' = "finally_fk"
    /\ UNCHANGED <<Flags, Session, Storage, Locals, step, df_basics, skip_stats, exc, faults>>

\* faulty variant: the finally clause only closes
EnableForeignKeysSkipped ==
    /\ pc = "finally_fk"
    /\ pc' = "finally_close"
    /\ UNCHANGED <<Flags, Session, Storage, Locals, step, df_basics, skip_stats, log, exc, faults>>

\* finally: if self.disable_fk: self.enable_foreign_keys()
EnableForeignKeys ==
    /\ pc = "finally_fk"
    /\ \/ /\ disable_fk
          /\ cursor = "open"
          /\ fk_checks' = 1
          /\ log' = Append(log, Event("fk_on", ""))
          /\ pc' = "finally_close"
          /\ UNCHANGED <<exc, faults>>
       \/ /\ disable_fk
          /\ cursor = "open"
          /\ CanFail
          /\ faults' = faults + 1
          /\ log' = Append(log, Event("fk_on_failed", ""))
          /\ pc' = "finally_close"
          /\ UNCHANGED <<fk_checks, exc>>
       \/ /\ disable_fk
          /\ cursor = "none"
          \* None.execute: AttributeError is no mysql Error and leaves the finally clause
          /\ exc' = "AttributeError"
          /\ pc' = "raised"
          /\ UNCHANGED <<fk_checks, log, faults>>
       \/ /\ ~disable_fk
          /\ pc' = "finally_close"
          /\ UNCHANGED <<fk_checks, log, exc, faults>>
    /\ UNCHANGED <<Flags, conn, cursor, Storage, Locals, step, df_basics, skip_stats>>

\* faulty variant: close() closes the cursor and leaves the connection open
CloseCursorOnly ==
    /\ pc = "finally_close"
    /\ cursor' = IF cursor = "open" THEN "closed" ELSE cursor
    /\ log' = Append(log, Event("close", ""))
    /\ pc' = IF exc = "SystemExit" THEN "exited" ELSE "returned"
    /\ UNCHANGED <<Flags, conn, fk_checks, Storage, Locals, step, df_basics, skip_stats, exc, faults>>

\* finally: self.close(); the server drops what the session left uncommitted
Close ==
    /\ pc = "finally_close"
    /\ cursor' = IF cursor = "open" THEN "closed" ELSE cursor
    /\ conn' = IF conn = "open" THEN "closed" ELSE conn
    /\ txn' = db
    /\ log' = Append(log, Event("close", ""))
    /\ pc' = IF exc = "SystemExit" THEN "exited" ELSE "returned"
    /\ UNCHANGED <<Flags, fk_checks, db, autoinc, Locals, step, df_basics, skip_stats, exc, faults>>

Next ==
    \/ Connect
    \/ ConnectFail
    \/ CursorFail
    \/ DisableForeignKeys
    \/ TruncateTable
    \/ BuildRows
    \/ ReadFail
    \/ SelectFail
    \/ ReadBasics
    \/ NoData
    \/ InsertBatch
    \/ InsertFail
    \/ PrintSuccess
    \/ EnableForeignKeys
    \/ Close

Spec == Init /\ [][Next]_vars

TypeOK ==
    /\ pc \in Range(Program) \cup {"finally_fk", "finally_close", "returned", "exited", "raised"}
    /\ step \in {"truncate", "read", "insert"}
    /\ conn \in {"none", "open", "closed"}
    /\ cursor \in {"none", "open", "closed"}
    /\ fk_checks \in {0, 1}
    /\ faults \in 0..MaxFaults

-----------------------------------------------------------------------------
(* Vocabulary of the properties.                                           *)

Terminal == {"returned", "exited", "raised"}

\* run_etl is over: it returned, or left with SystemExit or another exception
Finished == pc \in Terminal

Started(s) == Logged("start", s)

Returned(s) == Logged("return", s)

\* an exception reached run_etl's except clause
Failed == \E k \in 1..Len(log) : log[k].e = "etl_failed"

\* the position of event (e, t) in the log, 0 when it is not there
At(e, t) ==
    IF Logged(e, t) THEN CHOOSE k \in 1..Len(log) : log[k] = Event(e, t) ELSE 0

\* the rows of a table that this run wrote
Mine(rows) == SelectSeq(rows, LAMBDA r : r.run = 1)

\* the rows of a table that an earlier run left
Old(rows) == SelectSeq(rows, LAMBDA r : r.run = 0)

\* a stored row without its generated key and its run mark: the tuple that was supplied
Supplied(t, r) == [c \in DOMAIN r \ {"run", KeyCol(t)} |-> r[c]]

\* the values of a column in a table
Column(rows, col) == {rows[k][col] : k \in 1..Len(rows)}

\* the dimension key column a bridge table stores, and the dimension it points to
BridgeKey(b) == IF b = "bridge_title_genre" THEN "genre_key" ELSE "person_key"
BridgeDim(b) == IF b = "bridge_title_genre" THEN "dim_genre" ELSE "dim_person"

-----------------------------------------------------------------------------
(* C1: when the run is over, every bridge row the run persisted has its    *)
(* title identifier in dim_title and its genre/person key in dim_genre /   *)
(* dim_person (committed contents), whatever the extracts hold and also    *)
(* when a dimension load failed part-way.                                  *)
C1_NoDanglingBridgeRows ==
    Finished =>
        \A b \in BridgeStages : \A r \in Range(Mine(db[b])) :
            /\ r.tconst \in Column(db["dim_title"], "tconst")
            /\ r[BridgeKey(b)] \in Column(db[BridgeDim(b)], BridgeKey(b))

\* a finished run whose dim_person load broke off after its first batch and that
\* still persisted director rows
C1_Witness ==
    /\ Finished
    /\ Logged("insert_error", "dim_person")
    /\ Mine(db["dim_person"]) # <<>>
    /\ Mine(db["bridge_title_director"]) # <<>>
    /\ "unknown_person" \in DOMAIN skip_stats["bridge_title_principal"]

(* C2: the stages run one after another in the order of Stages: the calls *)
(* and returns of the stages alternate, and the k-th stage of the order is *)
(* called only after the stages before it have returned (so no bridge      *)
(* before the last dimension has returned, the fact only after the last    *)
(* bridge, and never two stages active at once).                           *)
StageEvents == SelectSeq(log, LAMBDA ev : ev.e \in {"start", "return"})

C2_StagesSequential ==
    LET events == StageEvents
    IN  \A k \in 1..Len(events) :
            events[k] = Event(IF k % 2 = 1 THEN "start" ELSE "return", Stages[(k + 1) \div 2])

\* the fact stage is running after a bridge stage lost its insert
C2_Witness ==
    /\ pc = "fact_title_ratings"
    /\ step = "insert"
    /\ Logged("insert_error", "bridge_title_genre")

(* C3: when a stage has read keys back (it is about to insert), the rows   *)
(* it fetched are the session's current rows of the tables it reads, every *)
(* row this run wrote to those tables is committed, and the titles of the  *)
(* rows it built are titles that are in storage.                           *)
C3_ReadBackCommittedKeys ==
    (pc \in Tables /\ step = "insert") =>
        /\ DOMAIN lookup = Reads(pc)
        /\ \A t \in Reads(pc) :
              /\ lookup[t] = txn[t]
              /\ Mine(txn[t]) = Mine(db[t])
        /\ "dim_title" \in Reads(pc) =>
              \A r \in Range(data) : r.tconst \in Column(txn["dim_title"], "tconst")

\* the director stage built rows from keys of this run while the extract names a
\* title that storage does not hold
C3_Witness ==
    /\ pc = "bridge_title_director"
    /\ step = "insert"
    /\ data # <<>>
    /\ Mine(lookup["dim_person"]) # <<>>
    /\ "tconst_not_found" \in DOMAIN skip_stats["bridge_title_director"]

(* C4: once a stage has failed (an exception reached run_etl), no          *)
(* committed table changes any more, and when run_etl has returned the     *)
(* re-enabling of the foreign-key checks was attempted (if they were       *)
(* relaxed), after the failure and before the close, and the cursor and    *)
(* the connection are closed.                                              *)
LastEvent == log[Len(log)].e

C4_CleanupAfterStageFailure ==
    /\ [](Failed =>
            /\ pc \in {"finally_fk", "finally_close", "returned"}
            /\ pc = "finally_close" =>
                  (disable_fk => LastEvent \in {"fk_on", "fk_on_failed"})
            /\ pc = "returned" =>
                  /\ cursor = "closed"
                  /\ conn = "closed"
                  /\ LastEvent = "close"
                  /\ disable_fk => log[Len(log) - 1].e \in {"fk_on", "fk_on_failed"})
    /\ [][Failed' => db' = db]_vars

\* run_etl returned after the episode stage failed, with the titles of this run
\* still committed
C4_Witness ==
    /\ pc = "returned"
    /\ Logged("etl_failed", "dim_episode")
    /\ disable_fk
    /\ Mine(db["dim_title"]) # <<>>

(* C5: when the connection cannot be established, no stage runs and the    *)
(* cleanup runs to its end (close() is reached) without a further error.   *)
C5_CleanupAfterConnectFailure ==
    Logged("connect_failed", "") =>
        /\ \A s \in Tables : ~Started(s)
        /\ exc # "AttributeError"
        /\ Finished => Logged("close", "")

(* C6 as claimed: once the bulk load of a table has failed on a batch,     *)
(* none of the rows handed to that call is persisted in the table.         *)
C6_WholeLoadRolledBack ==
    \A t \in Tables : Logged("insert_error", t) => Mine(db[t]) = <<>>

(* C6 as amended: when a batch of the bulk load of a table fails, the open *)
(* transaction is rolled back (nothing stays pending) and the error is     *)
(* printed with the table's name; the rows of the batches committed before *)
(* the failing one stay persisted, in input order, and no row of the       *)
(* failing batch or of a later batch is persisted.                         *)
C6_FailingBatchRolledBack ==
    [][(pc \in Tables /\ step = "insert" /\ Len(log') > Len(log)
            /\ log'[Len(log) + 1] = Event("insert_error", pc))
        => /\ txn' = db'
           /\ i % BatchSize = 0
           /\ MapSeq(Mine(db'[pc]), LAMBDA r : Supplied(pc, r)) = SubSeq(data, 1, i)
           /\ Old(db'[pc]) = Old(db[pc])]_vars

\* the load of dim_person failed on its second batch: its first batch is persisted
C6_Witness ==
    /\ Logged("insert_error", "dim_person")
    /\ Len(Mine(db["dim_person"])) = BatchSize
    /\ txn = db

(* C7: a batch insert error does not end the run: the transaction is       *)
(* rolled back, the stage returns to run_etl without an exception, and     *)
(* unless something else fails the run goes through every later stage to   *)
(* its end.                                                                *)
C7_InsertErrorDoesNotAbort ==
    \A k \in 1..Len(log) : log[k].e = "insert_error" =>
        /\ Logged("rollback", log[k].t)
        /\ Returned(log[k].t)
        /\ ~Logged("etl_failed", log[k].t)
        /\ (Finished /\ ~Failed) =>
              /\ \A s \in Tables : Started(s) /\ Returned(s)
              /\ Logged("completed", "")

\* the first table lost its insert and the run still loaded the fact table
C7_Witness ==
    /\ pc = "returned"
    /\ Logged("insert_error", "dim_time")
    /\ Logged("completed", "")
    /\ Mine(db["fact_title_ratings"]) # <<>>

(* C8 as claimed: with constraint relaxation on, the checks are switched   *)
(* off before the first table is cleared or written, stay off during every *)
(* stage, and at the end they are switched on and a final commit is issued *)
(* before the connection is closed.                                        *)
C8_RelaxedWithFinalCommit ==
    (disable_fk /\ pc = "returned") =>
        /\ \A s \in Tables : Started(s) => 0 < At("fk_off", "") /\ At("fk_off", "") < At("start", s)
        /\ Logged("fk_on", "")
        /\ \E k \in (At("fk_on", "") + 1)..(Len(log) - 1) : log[k].e = "commit"

(* C8 as amended: with constraint relaxation on, the statement switching   *)
(* the checks off is issued before the first table is cleared or written   *)
(* and, unless that statement failed, the checks are off during every      *)
(* stage; when run_etl returns, the statement switching them on was the    *)
(* only thing issued between the end of the try block and the close: no   *)
(* commit follows the last batch's own.                                    *)
C8_RelaxedAroundStages ==
    disable_fk =>
        /\ pc \in Tables =>
              /\ Logged("fk_off", "") \/ Logged("fk_off_failed", "")
              /\ log[2].e \in {"fk_off", "fk_off_failed"}
              /\ fk_checks = (IF Logged("fk_off", "") THEN 0 ELSE 1)
        /\ pc = "returned" =>
              /\ LastEvent = "close"
              /\ log[Len(log) - 1].e \in {"fk_on", "fk_on_failed"}
              /\ Logged("fk_on", "") => fk_checks = 1
              /\ log[Len(log) - 2].e \in {"completed", "etl_failed"}

\* a complete run with the checks relaxed from before the first stage to the end
C8_Witness ==
    /\ disable_fk
    /\ pc = "returned"
    /\ Logged("completed", "")
    /\ Logged("fk_off", "")
    /\ Logged("fk_on", "")
    /\ fk_checks = 1

(* C9 as claimed: when the run is over, every table holds only rows of     *)
(* this run, for every combination of the flags.                           *)
C9_OnlyRowsOfThisRun ==
    pc = "returned" => \A t \in Tables : Old(db[t]) = <<>>

(* C9 as amended: in a run with truncation requested and the checks        *)
(* relaxed, a table whose stage was entered and whose TRUNCATE did not     *)
(* fail holds, from then on, only rows of this run - also when the stage   *)
(* has no rows to insert or its insert fails.                              *)
C9_TruncatedTablesHoldOnlyNewRows ==
    (truncate /\ disable_fk) =>
        \A t \in Tables :
            \/ Old(db[t]) = <<>> /\ Old(txn[t]) = <<>>
            \/ ~Started(t)
            \/ Logged("clear_failed", t)

\* earlier rows are still in the tables not reached yet; the first table was
\* truncated and lost its insert, the second had nothing to insert
C9_Witness ==
    /\ truncate
    /\ disable_fk
    /\ pc = "read_basics"
    /\ Logged("insert_error", "dim_time")
    /\ Logged("no_data", "dim_person")
    /\ db["dim_time"] = <<>>
    /\ db["dim_person"] = <<>>
    /\ Old(db["fact_title_ratings"]) # <<>>

(* C10: a person named by the crew or the principals of a stored title     *)
(* but missing from name.basics gets a placeholder row in dim_person, and  *)
(* the bridge rows naming that person are kept: in a run without failures, *)
(* no person bridge ever counts an unknown person.                         *)
C10_PlaceholderPersons ==
    (faults = 0 /\ pc = "returned") =>
        \A b \in {"bridge_title_director", "bridge_title_writer", "bridge_title_principal"} :
            "unknown_person" \notin DOMAIN skip_stats[b]

-----------------------------------------------------------------------------
\* the rows of bridge table b this run persisted for title t and a person
\* stored under nconst n
PersonRows(b, t, n) ==
    LET keys == {x.person_key : x \in {y \in Range(db["dim_person"]) : y.nconst = n}}
    IN  SelectSeq(Mine(db[b]), LAMBDA r : r.tconst = t /\ r.person_key \in keys)

(* C11: in a run without failures, when the crew extract names person n as *)
(* a director of title t and the principals extract lists (t, n) with the  *)
(* category "director", and both the title and the person are stored,      *)
(* exactly one title-person row for that key is persisted, and it is the   *)
(* row of the principals extract (the crew row does not survive).          *)
C11_LastWriterWins ==
    (pc = "returned" /\ faults = 0) =>
        \A c \in Range(ReadTsv("title.crew", NRows)) :
            \A p \in Range(ReadTsv("title.principals", NRows)) :
                (/\ c.tconst = p.tconst
                 /\ p.category = "director"
                 /\ p.nconst \in Range(c.directors)
                 /\ p.tconst \in Column(db["dim_title"], "tconst")
                 /\ p.nconst \in Column(db["dim_person"], "nconst"))
                => /\ Len(PersonRows("bridge_title_director", p.tconst, p.nconst))
                        + Len(SelectSeq(PersonRows("bridge_title_principal", p.tconst, p.nconst),
                                        LAMBDA r : r.category = "director")) = 1
                   /\ PersonRows("bridge_title_director", p.tconst, p.nconst) = <<>>

-----------------------------------------------------------------------------
\* self.skip_stats[t][reason]: a reason never counted reads as 0
Tally(t, reason) == IF reason \in DOMAIN skip_stats[t] THEN skip_stats[t][reason] ELSE 0

\* the fact stage has built its row list and is about to insert it
FactBuilt == pc = "fact_title_ratings" /\ step = "insert" /\ i = 0

(* C12: every fact row this run persisted carries the identifier and the   *)
(* key of a stored dim_title row.  When the fact stage has built its rows: *)
(* a rating whose title is not stored gave no row and is counted once      *)
(* under title_not_found, every rating whose title is stored gave exactly  *)
(* one row; and in a run without failures exactly those rows are persisted.*)
C12_FactRowsResolve ==
    LET df == ReadTsv("title.ratings", NRows)
    IN  /\ \A r \in Range(Mine(db["fact_title_ratings"])) :
              \E d \in Range(db["dim_title"]) :
                  d.tconst = r.tconst /\ d.title_key = r.title_key
        /\ FactBuilt =>
              LET known == Column(txn["dim_title"], "tconst")
              IN  /\ Tally(pc, "title_not_found") = Count(df, LAMBDA r : r.tconst \notin known)
                  /\ \A k \in 1..Len(df) :
                        Count(data, LAMBDA x : x.tconst = df[k].tconst)
                            = (IF df[k].tconst \in known THEN 1 ELSE 0)
        /\ (pc = "returned" /\ faults = 0) =>
              Len(Mine(db["fact_title_ratings"]))
                  = Count(df, LAMBDA r : r.tconst \in Column(db["dim_title"], "tconst"))

\* the fact stage built rows for the stored titles and dropped a rating of a
\* title that is not stored
C12_Witness ==
    /\ FactBuilt
    /\ Len(data) >= 2
    /\ Tally("fact_title_ratings", "title_not_found") >= 1

-----------------------------------------------------------------------------
\* the years in which the pipeline may be run (the loader never reads the
\* clock to build dim_time)
ClockYears == 2024..2030

\* every rating of df whose title is among titles has a row in rows with its
\* measures, the key of that title and, as time key: none when the title's
\* year is unknown or outside lo..hi, the key of the year's row when the
\* year has a row in times
FactRowsDated(df, rows, titles, times, lo, hi) ==
    \A k \in 1..Len(df) :
        df[k].tconst \in Column(titles, "tconst") =>
            \E x \in Range(rows) : \E d \in Range(titles) :
                /\ x.tconst = df[k].tconst
                /\ x.averageRating = df[k].averageRating
                /\ x.numVotes = df[k].numVotes
                /\ d.tconst = x.tconst
                /\ d.title_key = x.title_key
                /\ (d.startYear = Null \/ d.startYear < lo \/ d.startYear > hi)
                        => x.time_key = Null
                /\ (d.startYear # Null /\ d.startYear \in Column(times, "year"))
                        => \E tm \in Range(times) :
                                tm.year = d.startYear /\ tm.time_key = x.time_key

(* C13 as claimed: with the range taken as [1874, current_year + 10], for  *)
(* whatever year the run takes place in: a rating whose title's year is    *)
(* unknown or outside that range is a fact row with its measures and no    *)
(* time key, a rating whose title's year has a row in dim_time carries the *)
(* time key of that year.                                                  *)
C13_AbsentOutsideClockRange ==
    FactBuilt =>
        \A cy \in ClockYears :
            FactRowsDated(ReadTsv("title.ratings", NRows), data,
                          txn["dim_title"], txn["dim_time"], FirstYear, cy + 10)

(* C13 as amended: the range is the fixed range dim_time is generated for, *)
(* FirstYear..LastYear (1874..2040).  A rating whose title's year is       *)
(* unknown or outside it is a fact row with its measures and no time key;  *)
(* a rating whose title's year has a row in dim_time carries the time key  *)
(* of that year; in a run without failures the rows are persisted so.      *)
C13_AbsentOutsideTimeDimension ==
    /\ FactBuilt =>
          FactRowsDated(ReadTsv("title.ratings", NRows), data,
                        txn["dim_title"], txn["dim_time"], FirstYear, LastYear)
    /\ (pc = "returned" /\ faults = 0) =>
          FactRowsDated(ReadTsv("title.ratings", NRows), Mine(db["fact_title_ratings"]),
                        db["dim_title"], db["dim_time"], FirstYear, LastYear)

\* the run persisted a fact row with a time key (year 2040), one without for a
\* title of 1850 and one without for a title of unknown year
C13_Witness ==
    /\ pc = "returned"
    /\ faults = 0
    /\ \E x \in Range(Mine(db["fact_title_ratings"])) : x.tconst = 1 /\ x.time_key # Null
    /\ \E x \in Range(Mine(db["fact_title_ratings"])) : x.tconst = 2 /\ x.time_key = Null
    /\ \E x \in Range(Mine(db["fact_title_ratings"])) : x.tconst = 4 /\ x.time_key = Null
    /\ \E d \in Range(db["dim_title"]) : d.tconst = 2 /\ d.startYear = 1850
    /\ \E d \in Range(db["dim_title"]) : d.tconst = 4 /\ d.startYear = Null

-----------------------------------------------------------------------------
\* the episode stage has built its row list and is about to insert it
EpisodeBuilt == pc = "dim_episode" /\ step = "insert" /\ i = 0

\* row r of title.episode names a parent that is not among the titles known
OrphanOf(r, known) == r.parentTconst # Null /\ r.parentTconst \notin known

(* C14: when the episode stage has built its rows, every episode (of a     *)
(* stored title) whose parent identifier is not a stored title has its row *)
(* in the list, with no parent, and parent_tconst_not_found counts exactly *)
(* these episodes; in a run without failures the row is persisted so.      *)
C14_OrphanEpisodeKept ==
    LET df == ReadTsv("title.episode", NRows)
    IN  /\ EpisodeBuilt =>
              LET known == Column(txn["dim_title"], "tconst")
              IN  /\ \A k \in 1..Len(df) :
                        (df[k].tconst \in known /\ OrphanOf(df[k], known)) =>
                            /\ [tconst |-> df[k].tconst, parentTconst |-> Null] \in Range(data)
                            /\ \A x \in Range(data) :
                                  x.tconst = df[k].tconst => x.parentTconst = Null
                  /\ Tally(pc, "parent_tconst_not_found")
                        = Count(df, LAMBDA r : r.tconst \in known /\ OrphanOf(r, known))
        /\ (pc = "returned" /\ faults = 0) =>
              LET known == Column(db["dim_title"], "tconst")
              IN  \A k \in 1..Len(df) :
                      (df[k].tconst \in known /\ OrphanOf(df[k], known)) =>
                          \E x \in Range(Mine(db["dim_episode"])) :
                              x.tconst = df[k].tconst /\ x.parentTconst = Null

\* the run persisted an episode without parent whose extract row names one, and
\* counted it
C14_Witness ==
    /\ pc = "returned"
    /\ faults = 0
    /\ Tally("dim_episode", "parent_tconst_not_found") >= 1
    /\ \E k \in 1..Len(ReadTsv("title.episode", NRows)) :
          /\ EpisodeRow(k).parentTconst # Null
          /\ \E x \in Range(Mine(db["dim_episode"])) :
                x.tconst = k /\ x.parentTconst = Null

(* C15: every episode row this run persisted has its identifier in         *)
(* dim_title and a parent that is absent or in dim_title.  When the        *)
(* episode stage has built its rows, no episode whose identifier is not a  *)
(* stored title is in the list, and tconst_not_found counts exactly these. *)
C15_EpisodeReferencesResolve ==
    /\ \A x \in Range(Mine(db["dim_episode"])) :
          /\ x.tconst \in Column(db["dim_title"], "tconst")
          /\ x.parentTconst = Null \/ x.parentTconst \in Column(db["dim_title"], "tconst")
    /\ EpisodeBuilt =>
          LET df    == ReadTsv("title.episode", NRows)
              known == Column(txn["dim_title"], "tconst")
          IN  /\ \A x \in Range(data) : x.tconst \in known
              /\ Len(data) + Tally(pc, "tconst_not_found") = Len(df)
              /\ Tally(pc, "tconst_not_found") = Count(df, LAMBDA r : r.tconst \notin known)

\* the run persisted an episode with a stored parent and skipped one whose own
\* identifier is not a stored title
C15_Witness ==
    /\ pc = "returned"
    /\ Tally("dim_episode", "tconst_not_found") >= 1
    /\ \E x \in Range(Mine(db["dim_episode"])) : x.parentTconst # Null

-----------------------------------------------------------------------------
\* the name stored in dim_genre under a genre key
GenreName(key) == (CHOOSE g \in Range(db["dim_genre"]) : g.genre_key = key).genre_name

\* the trimmed form of the genre tokens the listings use
Trimmed(token) == IF token = " Drama" THEN "Drama" ELSE token

\* the (title, trimmed token) pairs of the rows of df that have an identifier
RECURSIVE GenrePairs(_)
GenrePairs(df) ==
    IF df = <<>> THEN <<>>
    ELSE LET r == Head(df)
         IN  (IF r.tconst = Null THEN <<>>
              ELSE [j \in 1..Len(r.genres) |-> <<r.tconst, Trimmed(r.genres[j])>>])
             \o GenrePairs(Tail(df))

(* C16: after a run without failures over the title rows df, the genres    *)
(* this run stored are exactly the distinct trimmed tokens of the genre    *)
(* fields of df, in sorted order and without repetition; the titles it     *)
(* stored are the rows of df with an identifier, null genres and null year *)
(* included; the title-genre rows it stored are one (title, genre) pair    *)
(* for each token of each of those titles.  On the rows tt1                *)
(* 'Action, Drama', tt2 'Drama': genres Action, Drama and the pairs        *)
(* (tt1, Action), (tt1, Drama), (tt2, Drama).                              *)
C16_GenresTitlesAndPairs ==
    (pc = "returned" /\ faults = 0) =>
        LET df     == ReadTsv("title.basics", NRows)
            names  == MapSeq(Mine(db["dim_genre"]), LAMBDA g : g.genre_name)
            titles == MapSeq(Mine(db["dim_title"]), LAMBDA d : d.tconst)
            pairs  == MapSeq(Mine(db["bridge_title_genre"]),
                             LAMBDA b : <<b.tconst, GenreName(b.genre_key)>>)
        IN  /\ Range(names) = {Trimmed(r.genres[j]) : <<r, j>> \in
                                  {<<r2, j2>> \in Range(df) \X (1..2) : j2 <= Len(r2.genres)}}
            /\ \A a \in 1..Len(names) : \A b \in (a + 1)..Len(names) :
                  GenreRank(names[a]) < GenreRank(names[b])
            /\ titles = MapSeq(SelectSeq(df, LAMBDA r : r.tconst # Null), LAMBDA r : r.tconst)
            /\ pairs = GenrePairs(df)
            /\ Len(df) \in 2..4 =>
                  /\ names = <<"Action", "Drama">>
                  /\ pairs = <<<<1, "Action">>, <<1, "Drama">>, <<2, "Drama">>>>
            /\ Len(df) = 4 => titles = <<1, 2, 4>>

\* a complete run over the four title rows: two genres, three titles (one without
\* genres and without year), three pairs
C16_Witness ==
    /\ pc = "returned"
    /\ faults = 0
    /\ Len(Mine(db["dim_genre"])) = 2
    /\ Len(Mine(db["dim_title"])) = 3
    /\ Len(Mine(db["bridge_title_genre"])) = 3
    /\ \E d \in Range(Mine(db["dim_title"])) : d.tconst = 4 /\ d.startYear = Null

-----------------------------------------------------------------------------
\* the rows of table t this run persisted, as the tuples that were supplied
SuppliedRows(t, rows) == MapSeq(Mine(rows[t]), LAMBDA r : Supplied(t, r))

(* C18: while bulk_insert loads a table, the rows persisted are the first  *)
(* i rows supplied, in input order, i a multiple of the batch size, all of *)
(* them committed; every batch that goes through adds the next batch_size  *)
(* rows (fewer only when the input ends) and is committed before the next  *)
(* is sent; after the last batch the count reported is the number of rows  *)
(* supplied.                                                               *)
C18_BatchesInInputOrder ==
    /\ []((pc \in Tables /\ step = "insert") =>
            /\ i % BatchSize = 0
            /\ i <= Len(data)
            /\ inserted = i
            /\ SuppliedRows(pc, db) = SubSeq(data, 1, i)
            /\ Mine(txn[pc]) = Mine(db[pc]))
    /\ [][(pc \in Tables /\ step = "insert" /\ Len(log') > Len(log)
            /\ log'[Len(log) + 1] = Event("commit", pc))
          => LET n == Len(Mine(db'[pc])) - Len(Mine(db[pc]))
             IN  /\ n = Min(BatchSize, Len(data) - i)
                 /\ n >= 1
                 /\ SuppliedRows(pc, db') = SubSeq(data, 1, i + n)
                 /\ txn' = db'
                 /\ IF i + n < Len(data)
                    THEN pc' = pc /\ step' = step /\ i' = i + n /\ data' = data
                    ELSE /\ pc' = After(pc)
                         /\ log'[Len(log) + 2] = [e |-> "inserted", t |-> pc, n |-> Len(data)]
                         /\ Len(Mine(db'[pc])) = Len(data)]_vars

\* dim_person was loaded in a full batch and a last, shorter one
C18_Witness ==
    /\ \E k \in 1..Len(log) : log[k] = [e |-> "inserted", t |-> "dim_person", n |-> BatchSize + 1]
    /\ Len(Mine(db["dim_person"])) = BatchSize + 1

\* the title stage has built its row list and is about to insert it
TitleBuilt == pc = "dim_title" /\ step = "insert" /\ i = 0

(* C19: no dim_title row this run persisted has a null identifier.  When   *)
(* the title stage has built its rows: the rows are, in order, the source  *)
(* rows that have an identifier, one row each; missing_tconst counts the   *)
(* source rows without one; rows built + rows dropped = rows read.         *)
C19_TitleIdentifierNonNull ==
    /\ \A d \in Range(Mine(db["dim_title"])) : d.tconst # Null
    /\ TitleBuilt =>
          /\ \A x \in Range(data) : x.tconst # Null
          /\ MapSeq(data, LAMBDA x : x.tconst)
                = MapSeq(SelectSeq(df_basics, LAMBDA r : r.tconst # Null), LAMBDA r : r.tconst)
          /\ Tally(pc, "missing_tconst") = Count(df_basics, LAMBDA r : r.tconst = Null)
          /\ Len(data) + Tally(pc, "missing_tconst") = Len(df_basics)

\* the title stage dropped the source row without identifier and kept the others
C19_Witness ==
    /\ TitleBuilt
    /\ Len(df_basics) = 4
    /\ Len(data) = 3
    /\ Tally("dim_title", "missing_tconst") = 1

\* the time stage has built its row list and is about to insert it
TimeBuilt == pc = "dim_time" /\ step = "insert" /\ i = 0

-----------------------------------------------------------------------------
(* C21: when run_etl has returned, the run has printed a summary line for  *)
(* every table of the run, with the table's inserted-row count and its     *)
(* error count, and the line of a table whose bulk insert failed shows an  *)
(* error count above zero.                                                 *)
C21_RunEndSummary ==
    pc = "returned" =>
        \A t \in Tables : Started(t) =>
            \E k \in 1..Len(log) :
                /\ log[k].e = "summary"
                /\ log[k].t = t
                /\ Logged("insert_error", t) => log[k].n > 0

(* C22: when the extract a stage reads itself (names, episodes, akas,      *)
(* crew, principals, ratings) cannot be read, read_tsv returns None        *)
(* and nothing is raised: the stage returns to run_etl, no row of it is    *)
(* sent or committed, and unless something else fails the run goes through *)
(* every later stage to its end.                                           *)
C22_OptionalReadFailureSkipsStage ==
    \A k \in 1..Len(log) :
        (log[k].e = "read_failed" /\ log[k].t # "title.basics") =>
            LET s == log[k + 1].t
            IN  /\ log[k + 1].e = "return"
                /\ s \in Tables
                /\ FileOf(s) = log[k].t
                /\ ~Logged("etl_failed", s)
                /\ \A m \in 1..Len(log) :
                        log[m].t = s => log[m].e \notin {"commit", "inserted", "insert_error"}
                /\ Mine(db[s]) = <<>>
                /\ Mine(txn[s]) = <<>>
                /\ (Finished /\ ~Failed) =>
                      /\ \A later \in Tables : Started(later) /\ Returned(later)
                      /\ Logged("completed", "")

\* the episodes could not be read: no episode is stored and the run still loaded
\* the fact table and printed its success banner
C22_Witness ==
    /\ pc = "returned"
    /\ \E k \in 1..Len(log) : log[k].e = "read_failed" /\ log[k].t = "title.episode"
    /\ Mine(db["dim_episode"]) = <<>>
    /\ Mine(db["fact_title_ratings"]) # <<>>
    /\ Logged("completed", "")

(* C23: once the run has failed (the connection could not be opened, an    *)
(* exception reached run_etl's except clause, or title.basics could not be *)
(* read, which run_etl turns into such an exception), it is in its finally *)
(* clause or over and stays there: no stage starts, reads, clears or       *)
(* writes after the failure, and the only things that follow are the       *)
(* re-enabling of the foreign-key checks and the close.                    *)
C23_FailedIsAbsorbing ==
    \A k \in 1..Len(log) :
        /\ (log[k].e = "read_failed" /\ log[k].t = "title.basics") =>
              log[k + 1] = Event("etl_failed", "read_basics")
        /\ log[k].e \in {"etl_failed", "connect_failed"} =>
              /\ \A m \in (k + 1)..Len(log) : log[m].e \in {"fk_on", "fk_on_failed", "close"}
              /\ pc \in {"finally_fk", "finally_close"} \cup Terminal
              /\ step = "truncate"
              /\ data = <<>>

\* title.basics could not be read: the stages after it never started, the checks
\* were switched back on and the connection closed
C23_Witness ==
    /\ pc = "returned"
    /\ Logged("etl_failed", "read_basics")
    /\ Started("dim_person")
    /\ ~Started("dim_title_type")
    /\ log[Len(log) - 1].e = "fk_on"
    /\ LastEvent = "close"

(* C24: a run opens at most one connection with its cursor, and exactly    *)
(* one when any stage runs: connect() is the first thing the run does,     *)
(* the connection and the cursor are open during every step of every       *)
(* stage, an open connection or cursor changes only by being closed, in    *)
(* the finally clause, and a closed one is never opened again.             *)
C24_OneConnection ==
    /\ [](/\ Cardinality({k \in 1..Len(log) : log[k].e = "connect"}) <= 1
          /\ pc \in Tables =>
                /\ log[1] = Event("connect", "")
                /\ conn = "open"
                /\ cursor = "open")
    /\ [][/\ conn = "open" => (conn' = "open" \/ (conn' = "closed" /\ pc = "finally_close"))
          /\ cursor = "open" => (cursor' = "open" \/ (cursor' = "closed" /\ pc = "finally_close"))
          /\ conn = "closed" => conn' = "closed"
          /\ cursor = "closed" => cursor' = "closed"
          /\ (pc # "connect") => (conn' = "open" => conn = "open")
          /\ (pc # "connect") => (cursor' = "open" => cursor = "open")]_vars

\* a run went through every stage on the connection it opened first and closed it
C24_Witness ==
    /\ pc = "returned"
    /\ log[1] = Event("connect", "")
    /\ \A s \in Tables : Returned(s)
    /\ Mine(db["fact_title_ratings"]) # <<>>
    /\ conn = "closed"
    /\ cursor = "closed"

(* C25: the title stage is lenient about content types.  When it has built *)
(* its rows, every source title with an identifier has exactly one row,    *)
(* whatever its type: with the key of a persisted title-type row of that   *)
(* name when there is one, and with the type reference absent when there   *)
(* is none (also when the load of the title-type dimension failed);        *)
(* unknown_titleType counts the kept titles whose non-null type has no     *)
(* key; and a load that goes through persists one row per such title.      *)
C25_UnmappedTypeKeptAsNull ==
    /\ TitleBuilt =>
          LET types == lookup["dim_title_type"]
              known == Column(types, "titleType")
          IN  /\ \A k \in 1..Len(df_basics) :
                    LET r == df_basics[k]
                    IN  r.tconst # Null =>
                          /\ Cardinality({j \in 1..Len(data) : data[j].tconst = r.tconst}) = 1
                          /\ \A j \in 1..Len(data) : data[j].tconst = r.tconst =>
                                IF r.titleType \in known
                                THEN \E m \in 1..Len(types) :
                                        /\ types[m].titleType = r.titleType
                                        /\ types[m].type_key = data[j].type_key
                                ELSE data[j].type_key = Null
              /\ Tally(pc, "unknown_titleType")
                    = Count(df_basics, LAMBDA r : /\ r.tconst # Null
                                                  /\ r.titleType # NoText
                                                  /\ r.titleType \notin known)
    /\ (pc = "dim_episode" /\ step = "truncate" /\ log[Len(log) - 1].e = "inserted") =>
          Len(Mine(db["dim_title"])) = Count(df_basics, LAMBDA r : r.tconst # Null)

\* the load of the title-type dimension failed and left no type: the title stage
\* still built a row for each of the three titles with an identifier, without type
C25_Witness ==
    /\ TitleBuilt
    /\ Logged("insert_error", "dim_title_type")
    /\ lookup["dim_title_type"] = <<>>
    /\ Len(df_basics) = 4
    /\ Len(data) = 3
    /\ \A x \in Range(data) : x.type_key = Null
    /\ Tally("dim_title", "unknown_titleType") = 2

(* C26: the flags decide clearing and constraint relaxation.  Without      *)
(* truncate no stage issues a clearing statement and no row an earlier run *)
(* left is removed, in the session or committed; with the integrity checks *)
(* kept on (disable_fk false) the foreign-key check setting is never       *)
(* touched, neither switched off nor switched on, and every clearing       *)
(* statement is a DELETE FROM, never a TRUNCATE TABLE.                     *)
ClearEvents == {"truncate", "delete", "clear_failed"}

FkEvents == {"fk_off", "fk_off_failed", "fk_on", "fk_on_failed"}

C26_FlagsControlClearing ==
    /\ [](/\ ~truncate => \A k \in 1..Len(log) : log[k].e \notin ClearEvents
          /\ ~disable_fk =>
                /\ fk_checks = 1
                /\ \A k \in 1..Len(log) : log[k].e \notin FkEvents \cup {"truncate"})
    /\ [][/\ ~truncate => \A t \in Tables : /\ Old(txn'[t]) = Old(txn[t])
                                            /\ Old(db'[t]) = Old(db[t])
          /\ ~disable_fk => fk_checks' = fk_checks]_vars

\* a reload with the checks kept on: the fact table was cleared by DELETE FROM and
\* the setting is as it was
C26_Witness ==
    /\ pc = "returned"
    /\ truncate
    /\ ~disable_fk
    /\ \A t \in Tables : Logged("delete", t)
    /\ fk_checks = 1
    /\ Logged("completed", "")

(* C27: the rollback that follows a failed batch of one table leaves every *)
(* other table as it was, in what the session sees and in what is          *)
(* committed: no clear and no insert of another table's stage is undone,   *)
(* whether tables are cleared by TRUNCATE TABLE or by DELETE FROM and      *)
(* whether or not an earlier stage had rows to insert.                     *)
C27_RollbackTouchesOnlyItsTable ==
    [][(/\ pc \in Tables
        /\ step = "insert"
        /\ Len(log') > Len(log)
        /\ log'[Len(log) + 1] = Event("insert_error", pc))
       => \A t \in Tables \ {pc} : txn'[t] = txn[t] /\ db'[t] = db[t]]_vars

\* the stages that end with print_skip_summary
SkipStages == {"dim_title", "dim_episode", "dim_akas", "bridge_title_genre",
               "bridge_title_director", "bridge_title_writer",
               "bridge_title_principal", "fact_title_ratings"}

RECURSIVE SumOf(_)
SumOf(counts) ==
    IF DOMAIN counts = {} THEN 0
    ELSE LET r == CHOOSE x \in DOMAIN counts : TRUE
         IN  counts[r] + SumOf([x \in DOMAIN counts \ {r} |-> counts[x]])

\* print_skip_summary: total_skipped = sum(self.skip_stats[table].values())
TotalSkipped(t) == SumOf(skip_stats[t])

\* the title a source record is about
RecordId(r) == IF "titleId" \in DOMAIN r THEN r.titleId ELSE r.tconst

\* the source records of the stage for which at least one row is handed to bulk_insert
Submitted(df, rows) ==
    Count(df, LAMBDA r : RecordId(r) # Null /\ \E x \in Range(rows) : x.tconst = RecordId(r))

(* C28: when a stage that prints a skip summary has built its rows, the    *)
(* "Total skipped" figure of its summary is the number of source records   *)
(* it read for which nothing is handed to bulk_insert: records read =      *)
(* records submitted + total skipped.                                      *)
C28_TotalSkippedIsReadMinusSubmitted ==
    (pc \in SkipStages /\ step = "insert" /\ i = 0) =>
        LET df == Frame(pc)
        IN  Len(df) = Submitted(df, data) + TotalSkipped(pc)

(* C29: the banner ETL COMPLETED SUCCESSFULLY is printed only in a run in  *)
(* which no source read failed and no batch insert raised an error.        *)
C29_SuccessOnlyWithoutErrors ==
    Logged("completed", "") =>
        \A k \in 1..Len(log) : log[k].e \notin {"read_failed", "insert_error"}

\* the source files a run that goes through reads, in order
FilesRead ==
    <<"name.basics", "title.basics", "title.episode", "title.akas", "title.crew",
      "title.crew", "title.principals", "title.ratings">>

\* the number of rows a read of this run may return
RowsExpected == IF test_mode THEN Min(TestRows, fileRows) ELSE fileRows

(* C30: every call of read_tsv of a run is given the same cap: the fixed   *)
(* test-mode number in test mode and none outside it.  The calls are the   *)
(* one of run_etl for title.basics and one by each stage that reads a file *)
(* (names, episodes, akas, crew for the directors, crew for the writers,   *)
(* principals, ratings), and a run that goes through makes all of them; in *)
(* test mode a frame holds the first rows of its file up to the cap,       *)
(* outside test mode the whole file.                                       *)
C30_TestModeCapsEveryRead ==
    /\ \A k \in 1..Len(log) :
          log[k].e \in {"read", "read_failed"} =>
              /\ log[k].n = (IF test_mode THEN TestRows ELSE Null)
              /\ \/ log[k].t = "title.basics" /\ log[k - 1].e = "return"
                 \/ /\ log[k - 1].e \in {"start"} \cup ClearEvents
                    /\ FileOf(log[k - 1].t) = log[k].t
    /\ (pc \in Terminal /\ Logged("completed", "")) =>
          \A s \in Tables : FileOf(s) # "none" =>
              \E k \in 2..Len(log) : /\ log[k].e \in {"read", "read_failed"}
                                     /\ log[k].t = FileOf(s)
                                     /\ log[k - 1].t = s
    /\ (pc \in Tables /\ step = "read" /\ pc # "dim_time" /\ FileOf(pc) = "none") =>
          Frame(pc) = [k \in 1..RowsExpected |-> BasicsRow(k)]
    /\ (pc = "dim_person" /\ step = "insert" /\ i = 0) =>
          MapSeq(data, LAMBDA x : x.nconst)
              = [k \in 1..RowsExpected |-> NameRow(k).nconst]
    /\ (pc = "dim_akas" /\ step = "insert" /\ i = 0) =>
          Len(data) + Tally(pc, "tconst_not_found") = RowsExpected

\* a test-mode run over extracts longer than the cap read every file with the cap
\* and went through
C30_Witness ==
    /\ pc = "returned"
    /\ test_mode
    /\ fileRows > TestRows
    /\ Logged("completed", "")
    /\ Len(df_basics) = TestRows
    /\ Len(SelectSeq(log, LAMBDA x : x.e = "read" /\ x.n = TestRows)) = Len(FilesRead)

====
